---- MODULE Spec2Model ----
(***************************************************************************)
(* A model of the Connect4 engine of connect4.py: the board, the active    *)
(* player index, the game state, and the operations add_token and          *)
(* start_new_game with the win/draw computation of _calc_game_state.       *)
(***************************************************************************)
EXTENDS Integers, Sequences, FiniteSets, TLC

VARIABLES board, curr_player_index, game_state, ret, arg_column, new_row,
          reset_from, snapshot, ctor, starter

vars == <<board, curr_player_index, game_state, ret, arg_column, new_row,
          reset_from, snapshot, ctor, starter>>

engine == <<board, curr_player_index, game_state>>

(* ---------------------------------------------------------------------- *)
(* Program constants                                                       *)
(* ---------------------------------------------------------------------- *)
NumRows == 6

NumColumns == 7

EMPTY == -1

Players == {0, 1}

GameStates == {"DRAW", "PLAYER_WIN", "GAME_CONTINUE"}

(* ---------------------------------------------------------------------- *)
(* Bounds of the model                                                     *)
(* ---------------------------------------------------------------------- *)
\* placements explored per game under Spec
MaxTokens == 7

\* final placements left to the move source under EndgameSpec
FreeMoves == 8

\* how far outside 0..6 the column arguments of add_token reach under EndgameSpec
ColumnSlack == 1

\* placements explored per game under SnapshotSpec
SnapshotTokens == 1

\* cells the caller overwrites in one grid returned by get_board
MaxEdits == 1

\* Player objects offered to the constructor of connect4_revise.Connect4
NumPlayerObjects == 8

\* width of the strip of columns used by the narrow games
PlayColumns == 2

\* cells besides the pivot given to the mover on the boards of ProbeSpec
MaxPainted == 3

PlayerObjects == 1..NumPlayerObjects

Columns == (0 - ColumnSlack)..(NumColumns - 1 + ColumnSlack)

NoRow == -1

NoColumn == -100

\* the caller holds no grid returned by get_board
NoSnapshot == [held |-> FALSE]

\* no constructor call of connect4_revise.Connect4 has been made
NoCtor == [pc |-> "none"]

(* ---------------------------------------------------------------------- *)
(* Python list indexing: a negative index counts from the end              *)
(* ---------------------------------------------------------------------- *)
Idx(i, n) == IF i < 0 THEN i + n ELSE i

Cell(b, r, c) == b[Idx(r, NumRows)][Idx(c, NumColumns)]

Put(b, r, c, p) == [b EXCEPT ![Idx(r, NumRows)][Idx(c, NumColumns)] = p]

EmptyBoard == [r \in 0..(NumRows - 1) |-> [c \in 0..(NumColumns - 1) |-> EMPTY]]

RECURSIVE SumTo(_, _)
SumTo(f, n) == IF n < 0 THEN 0 ELSE f[n] + SumTo(f, n - 1)

\* tokens in column c
Height(b, c) == Cardinality({r \in 0..(NumRows - 1) : b[r][c] # EMPTY})

\* tokens on the board
Count(b) == SumTo([c \in 0..(NumColumns - 1) |-> Height(b, c)], NumColumns - 1)

\* tokens of player p on the board
CountOf(b, p) ==
  SumTo([c \in 0..(NumColumns - 1) |->
           Cardinality({r \in 0..(NumRows - 1) : b[r][c] = p})], NumColumns - 1)

(* ---------------------------------------------------------------------- *)
(* _calc_game_state                                                        *)
(* ---------------------------------------------------------------------- *)
\* IsFull with the loop stopping one column early
IsFull_SkipsLastColumn(b) == \A c \in 0..(NumColumns - 2) : b[0][c] # EMPTY

\* the loop over self._board[0]
IsFull(b) == \A c \in 0..(NumColumns - 1) : b[0][c] # EMPTY

\* Three with the third comparison lost
Three_TwoCells(b, p, r1, c1, r2, c2, r3, c3) ==
  /\ Cell(b, r1, c1) = p
  /\ Cell(b, r2, c2) = p

Three(b, p, r1, c1, r2, c2, r3, c3) ==
  /\ Cell(b, r1, c1) = p
  /\ Cell(b, r2, c2) = p
  /\ Cell(b, r3, c3) = p

\* WinFirst with the guard of case 4 (180 degrees) off by one
WinFirst_DownGuard(b, p, r, c) ==
  \/ r >= 3 /\ Three(b, p, r - 1, c, r - 2, c, r - 3, c)
  \/ r >= 3 /\ c <= 3 /\ Three(b, p, r - 1, c + 1, r - 2, c + 2, r - 3, c + 3)
  \/ c <= 3 /\ Three(b, p, r, c + 1, r, c + 2, r, c + 3)
  \/ r <= 2 /\ c <= 3 /\ Three(b, p, r + 1, c + 1, r + 2, c + 2, r + 3, c + 3)
  \/ r < 2 /\ Three(b, p, r + 1, c, r + 2, c, r + 3, c)
  \/ r <= 2 /\ c >= 3 /\ Three(b, p, r + 1, c - 1, r + 2, c - 2, r + 3, c - 3)
  \/ c >= 3 /\ Three(b, p, r, c - 1, r, c - 2, r, c - 3)
  \/ r >= 3 /\ c >= 3 /\ Three(b, p, r - 1, c - 1, r - 2, c - 2, r - 3, c - 3)

\* "new token at first of connect4": the eight cases 0 .. 7
WinFirst(b, p, r, c) ==
  \/ r >= 3 /\ Three(b, p, r - 1, c, r - 2, c, r - 3, c)
  \/ r >= 3 /\ c <= 3 /\ Three(b, p, r - 1, c + 1, r - 2, c + 2, r - 3, c + 3)
  \/ c <= 3 /\ Three(b, p, r, c + 1, r, c + 2, r, c + 3)
  \/ r <= 2 /\ c <= 3 /\ Three(b, p, r + 1, c + 1, r + 2, c + 2, r + 3, c + 3)
  \/ r <= 2 /\ Three(b, p, r + 1, c, r + 2, c, r + 3, c)
  \/ r <= 2 /\ c >= 3 /\ Three(b, p, r + 1, c - 1, r + 2, c - 2, r + 3, c - 3)
  \/ c >= 3 /\ Three(b, p, r, c - 1, r, c - 2, r, c - 3)
  \/ r >= 3 /\ c >= 3 /\ Three(b, p, r - 1, c - 1, r - 2, c - 2, r - 3, c - 3)

\* WinSecond left out: only runs ending at the new token are looked for
WinSecond_Missing(b, p, r, c) == FALSE

\* WinSecond with the last cell of case 16 (270 degrees) one column too far
WinSecond_GappedCase(b, p, r, c) ==
  \/ 2 <= r /\ r <= 4 /\ Three(b, p, r + 1, c, r - 1, c, r - 2, c)
  \/ 2 <= r /\ r <= 4 /\ 1 <= c /\ c <= 4
       /\ Three(b, p, r + 1, c - 1, r - 1, c + 1, r - 2, c + 2)
  \/ 1 <= c /\ c <= 4 /\ Three(b, p, r, c - 1, r, c + 1, r, c + 2)
  \/ 1 <= r /\ r <= 3 /\ 1 <= c /\ c <= 4
       /\ Three(b, p, r - 1, c - 1, r + 1, c + 1, r + 2, c + 2)
  \/ 1 <= r /\ r <= 3 /\ Three(b, p, r - 1, c, r + 1, c, r + 2, c)
  \/ 1 <= r /\ r <= 3 /\ 2 <= c /\ c <= 5
       /\ Three(b, p, r - 1, c + 1, r + 1, c - 1, r + 2, c - 2)
  \/ 2 <= c /\ c <= 5 /\ Three(b, p, r, c + 1, r, c - 1, r, c - 3)
  \/ 2 <= r /\ r <= 4 /\ 2 <= c /\ c <= 5
       /\ Three(b, p, r + 1, c + 1, r - 1, c - 1, r - 2, c - 2)

\* "new token at second of connect4": the eight cases 10 .. 17
WinSecond(b, p, r, c) ==
  \/ 2 <= r /\ r <= 4 /\ Three(b, p, r + 1, c, r - 1, c, r - 2, c)
  \/ 2 <= r /\ r <= 4 /\ 1 <= c /\ c <= 4
       /\ Three(b, p, r + 1, c - 1, r - 1, c + 1, r - 2, c + 2)
  \/ 1 <= c /\ c <= 4 /\ Three(b, p, r, c - 1, r, c + 1, r, c + 2)
  \/ 1 <= r /\ r <= 3 /\ 1 <= c /\ c <= 4
       /\ Three(b, p, r - 1, c - 1, r + 1, c + 1, r + 2, c + 2)
  \/ 1 <= r /\ r <= 3 /\ Three(b, p, r - 1, c, r + 1, c, r + 2, c)
  \/ 1 <= r /\ r <= 3 /\ 2 <= c /\ c <= 5
       /\ Three(b, p, r - 1, c + 1, r + 1, c - 1, r + 2, c - 2)
  \/ 2 <= c /\ c <= 5 /\ Three(b, p, r, c + 1, r, c - 1, r, c - 2)
  \/ 2 <= r /\ r <= 4 /\ 2 <= c /\ c <= 5
       /\ Three(b, p, r + 1, c + 1, r - 1, c - 1, r - 2, c - 2)

\* calc_game_state without the draw branch
calc_game_state_NoDraw(b, p, r, c) ==
  IF WinFirst(b, p, r, c) \/ WinSecond(b, p, r, c) THEN "PLAYER_WIN"
  ELSE "GAME_CONTINUE"

calc_game_state(b, p, r, c) ==
  IF r = 0 /\ IsFull(b) THEN "DRAW"
  ELSE IF WinFirst(b, p, r, c) \/ WinSecond(b, p, r, c) THEN "PLAYER_WIN"
  ELSE "GAME_CONTINUE"

\* CaseGuards with the guard of case 6 (270 degrees) one column too wide
CaseGuards_LooseLeft(r, c) ==
  << r >= 3,
     r >= 3 /\ c <= 3,
     c <= 3,
     r <= 2 /\ c <= 3,
     r <= 2,
     r <= 2 /\ c >= 3,
     c >= 2,
     r >= 3 /\ c >= 3,
     2 <= r /\ r <= 4,
     2 <= r /\ r <= 4 /\ 1 <= c /\ c <= 4,
     1 <= c /\ c <= 4,
     1 <= r /\ r <= 3 /\ 1 <= c /\ c <= 4,
     1 <= r /\ r <= 3,
     1 <= r /\ r <= 3 /\ 2 <= c /\ c <= 5,
     2 <= c /\ c <= 5,
     2 <= r /\ r <= 4 /\ 2 <= c /\ c <= 5 >>

\* the guards of the sixteen outer ifs, in the order of the code
CaseGuards(r, c) ==
  << r >= 3,
     r >= 3 /\ c <= 3,
     c <= 3,
     r <= 2 /\ c <= 3,
     r <= 2,
     r <= 2 /\ c >= 3,
     c >= 3,
     r >= 3 /\ c >= 3,
     2 <= r /\ r <= 4,
     2 <= r /\ r <= 4 /\ 1 <= c /\ c <= 4,
     1 <= c /\ c <= 4,
     1 <= r /\ r <= 3 /\ 1 <= c /\ c <= 4,
     1 <= r /\ r <= 3,
     1 <= r /\ r <= 3 /\ 2 <= c /\ c <= 5,
     2 <= c /\ c <= 5,
     2 <= r /\ r <= 4 /\ 2 <= c /\ c <= 5 >>

\* the three cells of each inner if, in the order the and-chain compares them
CaseCells(r, c) ==
  << << <<r - 1, c>>, <<r - 2, c>>, <<r - 3, c>> >>,
     << <<r - 1, c + 1>>, <<r - 2, c + 2>>, <<r - 3, c + 3>> >>,
     << <<r, c + 1>>, <<r, c + 2>>, <<r, c + 3>> >>,
     << <<r + 1, c + 1>>, <<r + 2, c + 2>>, <<r + 3, c + 3>> >>,
     << <<r + 1, c>>, <<r + 2, c>>, <<r + 3, c>> >>,
     << <<r + 1, c - 1>>, <<r + 2, c - 2>>, <<r + 3, c - 3>> >>,
     << <<r, c - 1>>, <<r, c - 2>>, <<r, c - 3>> >>,
     << <<r - 1, c - 1>>, <<r - 2, c - 2>>, <<r - 3, c - 3>> >>,
     << <<r + 1, c>>, <<r - 1, c>>, <<r - 2, c>> >>,
     << <<r + 1, c - 1>>, <<r - 1, c + 1>>, <<r - 2, c + 2>> >>,
     << <<r, c - 1>>, <<r, c + 1>>, <<r, c + 2>> >>,
     << <<r - 1, c - 1>>, <<r + 1, c + 1>>, <<r + 2, c + 2>> >>,
     << <<r - 1, c>>, <<r + 1, c>>, <<r + 2, c>> >>,
     << <<r - 1, c + 1>>, <<r + 1, c - 1>>, <<r + 2, c - 2>> >>,
     << <<r, c + 1>>, <<r, c - 1>>, <<r, c - 2>> >>,
     << <<r + 1, c + 1>>, <<r - 1, c - 1>>, <<r - 2, c - 2>> >> >>

\* a list index Python accepts: -len .. len - 1 (anything else is an IndexError)
Indexable(rc) ==
  /\ 0 - NumRows <= rc[1] /\ rc[1] < NumRows
  /\ 0 - NumColumns <= rc[2] /\ rc[2] < NumColumns

\* the comparison at rc is made and finds the mover's value
Hit(b, p, rc) == Indexable(rc) /\ Cell(b, rc[1], rc[2]) = p

\* the and-chain stops at the first comparison that fails: the i-th cell is
\* read when the guard holds and the comparisons before it succeeded
ChainReads(b, p, on, at) ==
  IF on
  THEN {at[i] : i \in {i \in 1..3 : \A j \in 1..(i - 1) : Hit(b, p, at[j])}}
  ELSE {}

\* the case returns PLAYER_WIN
ChainWins(b, p, on, at) == on /\ \A i \in 1..3 : Hit(b, p, at[i])

\* the case ends the call with an IndexError
ChainRaises(b, p, on, at) == \E rc \in ChainReads(b, p, on, at) : ~Indexable(rc)

\* the cells of row 0 the draw branch looks at: up to the first empty one
DrawReads(b, r) ==
  IF r = 0
  THEN {<<0, c>> : c \in {c \in 0..(NumColumns - 1) :
                            \A j \in 0..(c - 1) : b[0][j] # EMPTY}}
  ELSE {}

\* the index pairs, as written in the code, that one call reads: a case is
\* reached when the draw branch and the cases before it did not end the call
Reads(b, p, r, c) ==
  LET on   == CaseGuards(r, c)
      at   == CaseCells(r, c)
      ends == {k \in 1..16 : \/ ChainWins(b, p, on[k], at[k])
                             \/ ChainRaises(b, p, on[k], at[k])}
  IN DrawReads(b, r) \cup
     IF r = 0 /\ IsFull(b) THEN {}
     ELSE UNION {ChainReads(b, p, on[k], at[k]) :
                   k \in {k \in 1..16 : \A j \in ends : k <= j}}

(* ---------------------------------------------------------------------- *)
(* add_token                                                               *)
(* ---------------------------------------------------------------------- *)
\* Precheck with the range check ahead of the game-over check
Precheck_RangeFirst(gs, b, column) ==
  IF column < 0 \/ column >= NumColumns THEN "ValueError"
  ELSE IF gs # "GAME_CONTINUE" THEN "GameOverError"
  ELSE IF Cell(b, 0, column) # EMPTY THEN "FullColumnError"
  ELSE "ok"

\* Precheck without the full-column check
Precheck_NoFullCheck(gs, b, column) ==
  IF gs # "GAME_CONTINUE" THEN "GameOverError"
  ELSE IF column < 0 \/ column >= NumColumns THEN "ValueError"
  ELSE "ok"

\* Precheck without the lower half of the range check
Precheck_NoLowerBound(gs, b, column) ==
  IF gs # "GAME_CONTINUE" THEN "GameOverError"
  ELSE IF column >= NumColumns THEN "ValueError"
  ELSE IF Cell(b, 0, column) # EMPTY THEN "FullColumnError"
  ELSE "ok"

\* Precheck without the game-over check
Precheck_NoGameOver(gs, b, column) ==
  IF column < 0 \/ column >= NumColumns THEN "ValueError"
  ELSE IF Cell(b, 0, column) # EMPTY THEN "FullColumnError"
  ELSE "ok"

\* the three early raises of add_token, in the order of the code
Precheck(gs, b, column) ==
  IF gs # "GAME_CONTINUE" THEN "GameOverError"
  ELSE IF column < 0 \/ column >= NumColumns THEN "ValueError"
  ELSE IF Cell(b, 0, column) # EMPTY THEN "FullColumnError"
  ELSE "ok"

\* ScanRow with the comparison inverted: stops at the first empty row
RECURSIVE ScanRow_StopsOnEmpty(_, _, _)
ScanRow_StopsOnEmpty(b, column, row) ==
  IF row = 6 THEN 6
  ELSE IF Cell(b, row, column) = EMPTY THEN row
  ELSE ScanRow_StopsOnEmpty(b, column, row + 1)

\* ScanRow over range(1, 6): the loop ends at row 5 without a break
RECURSIVE ScanRow_ShortRange(_, _, _)
ScanRow_ShortRange(b, column, row) ==
  IF row = 5 THEN 5
  ELSE IF Cell(b, row, column) # EMPTY THEN row
  ELSE ScanRow_ShortRange(b, column, row + 1)

\* for row in range(1, 7): the value of row at the break
RECURSIVE ScanRow(_, _, _)
ScanRow(b, column, row) ==
  IF row = 6 THEN 6
  ELSE IF Cell(b, row, column) # EMPTY THEN row
  ELSE ScanRow(b, column, row + 1)

\* the assignment made inside the loop, just before the break
DropToken(b, column, p, row) ==
  IF row = 6 THEN Put(b, 5, column, p) ELSE Put(b, row - 1, column, p)

\* |= 1 in place of ^= 1
Xor1_Or(i) == 1

Xor1(i) == IF i = 0 THEN 1 ELSE 0

\* add_token advancing the turn only while the game continues
add_token_NoFlipAtEnd(column) ==
  LET pre == Precheck(game_state, board, column) IN
  IF pre # "ok"
  THEN /\ ret' = pre
       /\ arg_column' = column
       /\ new_row' = NoRow
       /\ reset_from' = "none"
       /\ UNCHANGED <<engine, snapshot, ctor, starter>>
  ELSE LET row == ScanRow(board, column, 1)
           b1  == DropToken(board, column, curr_player_index, row)
           gs  == calc_game_state(b1, curr_player_index, row - 1, column)
       IN /\ game_state' = gs
          /\ board' = Put(b1, row - 1, column, curr_player_index)
          /\ curr_player_index' = IF gs = "GAME_CONTINUE"
                                   THEN Xor1(curr_player_index)
                                   ELSE curr_player_index
          /\ ret' = gs
          /\ arg_column' = column
          /\ new_row' = row - 1
          /\ reset_from' = "none"
          /\ UNCHANGED <<snapshot, ctor, starter>>

add_token(column) ==
  LET pre == Precheck(game_state, board, column) IN
  IF pre # "ok"
  THEN /\ ret' = pre
       /\ arg_column' = column
       /\ new_row' = NoRow
       /\ reset_from' = "none"
       /\ UNCHANGED <<engine, snapshot, ctor, starter>>
  ELSE LET row == ScanRow(board, column, 1)
           b1  == DropToken(board, column, curr_player_index, row)
           gs  == calc_game_state(b1, curr_player_index, row - 1, column)
       IN /\ game_state' = gs
          /\ board' = Put(b1, row - 1, column, curr_player_index)
          /\ curr_player_index' = Xor1(curr_player_index)
          /\ ret' = gs
          /\ arg_column' = column
          /\ new_row' = row - 1
          /\ reset_from' = "none"
          /\ UNCHANGED <<snapshot, ctor, starter>>

(* ---------------------------------------------------------------------- *)
(* is_valid_move                                                           *)
(* ---------------------------------------------------------------------- *)
\* is_valid without the test of the game state
is_valid_NoStateCheck(gs, b, column) ==
  IF column < 0 \/ column >= NumColumns THEN FALSE
  ELSE IF Cell(b, 0, column) # EMPTY THEN FALSE
  ELSE TRUE

\* the value is_valid_move returns
is_valid(gs, b, column) ==
  IF gs # "GAME_CONTINUE" THEN FALSE
  ELSE IF column < 0 \/ column >= NumColumns THEN FALSE
  ELSE IF Cell(b, 0, column) # EMPTY THEN FALSE
  ELSE TRUE

is_valid_move(column) ==
  /\ ret' = IF is_valid(game_state, board, column) THEN "True" ELSE "False"
  /\ arg_column' = column
  /\ new_row' = NoRow
  /\ reset_from' = "none"
  /\ UNCHANGED <<engine, snapshot, ctor, starter>>

(* ---------------------------------------------------------------------- *)
(* get_board, and a caller writing into the grid it got                    *)
(* ---------------------------------------------------------------------- *)
BoardValues == {"EMPTY", "A_TOKEN", "B_TOKEN"}

\* BoardValueOf with the two token values exchanged
BoardValueOf_Swapped(v) ==
  IF v = -1 THEN "EMPTY"
  ELSE IF v = 0 THEN "B_TOKEN"
  ELSE IF v = 1 THEN "A_TOKEN"
  ELSE "NOTHING"

\* the if / elif chain of get_board; no branch appends for any other value
BoardValueOf(v) ==
  IF v = -1 THEN "EMPTY"
  ELSE IF v = 0 THEN "A_TOKEN"
  ELSE IF v = 1 THEN "B_TOKEN"
  ELSE "NOTHING"

\* the grid get_board builds
board_copy(b) ==
  [i \in 0..(NumRows - 1) |-> [j \in 0..(NumColumns - 1) |-> BoardValueOf(b[i][j])]]

\* ret = [[] for a in range(6)]: the grid and its rows are new lists, so the
\* reference handed to the caller is not the engine's board (alias FALSE)
get_board ==
  /\ snapshot' = [held |-> TRUE, grid |-> board_copy(board), alias |-> FALSE,
                  edits |-> 0]
  /\ ret' = "Board"
  /\ arg_column' = NoColumn
  /\ new_row' = NoRow
  /\ reset_from' = "none"
  /\ UNCHANGED <<engine, ctor, starter>>

\* the caller assigns v to cell (i, j) of the grid it holds; the assignment
\* reaches the engine's board only through an aliased reference
CallerWrite(i, j, v) ==
  /\ snapshot.held
  /\ snapshot.edits < MaxEdits
  /\ IF snapshot.alias
     THEN /\ board' = Put(board, i, j, v)
          /\ snapshot' = [snapshot EXCEPT !.edits = @ + 1]
     ELSE /\ snapshot' = [snapshot EXCEPT !.grid[i][j] = v, !.edits = @ + 1]
          /\ UNCHANGED board
  /\ UNCHANGED <<curr_player_index, game_state, ret, arg_column, new_row,
                 reset_from, ctor, starter>>

(* ---------------------------------------------------------------------- *)
(* The random move sources: choose_rand_column and RandomBot.choose_column *)
(* ---------------------------------------------------------------------- *)
\* possible_column with the loop over range(6)
possible_column_ShortRange(view) ==
  {i \in 0..(NumColumns - 2) : view[0][i] = "EMPTY"}

\* the list possible_column built by the loop over range(7)
possible_column(view) == {i \in 0..(NumColumns - 1) : view[0][i] = "EMPTY"}

\* main.choose_rand_column: raises ValueError, or returns any listed column
choose_rand_column(view) ==
  [raises |-> possible_column(view) = {}, columns |-> possible_column(view)]

\* RandomBot.choose_column: the same body
choose_column(view) ==
  [raises |-> possible_column(view) = {}, columns |-> possible_column(view)]

(* ---------------------------------------------------------------------- *)
(* start_new_game and construction                                         *)
(* ---------------------------------------------------------------------- *)
\* random.randint(0, 1)
random_select_start_player == {0, 1}

\* start_new_game without the assignment to _game_state
start_new_game_KeepsState ==
  /\ board' = EmptyBoard
  /\ curr_player_index' \in random_select_start_player
  /\ UNCHANGED game_state
  /\ ret' = "None"
  /\ arg_column' = NoColumn
  /\ new_row' = NoRow
  /\ reset_from' = game_state
  /\ starter' = curr_player_index'
  /\ UNCHANGED <<snapshot, ctor>>

\* start_new_game without the loop that empties the board
start_new_game_KeepsBoard ==
  /\ UNCHANGED board
  /\ curr_player_index' \in random_select_start_player
  /\ game_state' = "GAME_CONTINUE"
  /\ ret' = "None"
  /\ arg_column' = NoColumn
  /\ new_row' = NoRow
  /\ reset_from' = game_state
  /\ starter' = curr_player_index'
  /\ UNCHANGED <<snapshot, ctor>>

start_new_game ==
  /\ board' = EmptyBoard
  /\ curr_player_index' \in random_select_start_player
  /\ game_state' = "GAME_CONTINUE"
  /\ ret' = "None"
  /\ arg_column' = NoColumn
  /\ new_row' = NoRow
  /\ reset_from' = game_state
  /\ starter' = curr_player_index'
  /\ UNCHANGED <<snapshot, ctor>>

Init ==
  /\ board = EmptyBoard
  /\ curr_player_index \in random_select_start_player
  /\ game_state = "GAME_CONTINUE"
  /\ ret = "None"
  /\ arg_column = NoColumn
  /\ new_row = NoRow
  /\ reset_from = "none"
  /\ snapshot = NoSnapshot
  /\ ctor = NoCtor
  /\ starter = curr_player_index

\* add_token(column) would place a token
Places(column) == Precheck(game_state, board, column) = "ok"

\* free play with column arguments inside the grid, MaxTokens placements a game
Play == LET capped == Count(board) >= MaxTokens IN
        \E column \in 0..(NumColumns - 1) :
          /\ Places(column) => ~capped
          /\ add_token(column)

Next == Play \/ start_new_game

Spec == Init /\ [][Next]_vars

(* ---------------------------------------------------------------------- *)
(* Endgames: the move source replays a recorded game, layer by layer, and  *)
(* chooses any argument in Columns for the last FreeMoves placements       *)
(* ---------------------------------------------------------------------- *)
RecordedGame ==
  << 0, 3, 5, 2, 1, 6, 4,   0, 3, 1, 6, 4, 2, 5,   5, 2, 4, 3, 0, 6, 1,
     0, 6, 5, 3, 4, 2, 1,   1, 3, 0, 6, 5, 2, 4,   0, 2, 4, 3, 1, 6, 5 >>

Replayed == NumRows * NumColumns - FreeMoves

EndgamePlay == \E column \in Columns :
                 /\ Count(board) < Replayed => column = RecordedGame[Count(board) + 1]
                 /\ add_token(column)

EndgameNext == EndgamePlay \/ start_new_game

EndgameSpec == Init /\ [][EndgameNext]_vars

(* ---------------------------------------------------------------------- *)
(* Games played in the leftmost PlayColumns columns only, with no cap on   *)
(* the number of placements: both players can stack a column to the top    *)
(* ---------------------------------------------------------------------- *)
NarrowPlay == \E column \in 0..(PlayColumns - 1) : add_token(column)

NarrowNext == NarrowPlay \/ start_new_game

NarrowSpec == Init /\ [][NarrowNext]_vars

(* ---------------------------------------------------------------------- *)
(* The session loop of main.py fed by choose_rand_column: one placement    *)
(* per iteration while the game state is GAME_CONTINUE; the recorded game  *)
(* fixes the first placements                                              *)
(* ---------------------------------------------------------------------- *)
SessionStep ==
  /\ game_state = "GAME_CONTINUE"
  /\ \E column \in choose_rand_column(board_copy(board)).columns :
       /\ Count(board) < Replayed => column = RecordedGame[Count(board) + 1]
       /\ add_token(column)

\* the loop body runs again as long as its condition holds
SessionSpec == Init /\ [][SessionStep]_vars /\ WF_vars(SessionStep)

(* ---------------------------------------------------------------------- *)
(* Endgames with is_valid_move queries                                     *)
(* ---------------------------------------------------------------------- *)
Query == \E column \in Columns : is_valid_move(column)

QueryNext == EndgamePlay \/ start_new_game \/ Query

QuerySpec == Init /\ [][QueryNext]_vars

(* ---------------------------------------------------------------------- *)
(* Short games with get_board calls and a caller writing into the result   *)
(* ---------------------------------------------------------------------- *)
SnapshotPlay == LET capped == Count(board) >= SnapshotTokens IN
                \E column \in 0..(NumColumns - 1) :
                  /\ Places(column) => ~capped
                  /\ add_token(column)

\* the caller writes into the bottom row, where the tokens of a short game lie
Write == \E j \in 0..(NumColumns - 1) : \E v \in BoardValues :
           CallerWrite(NumRows - 1, j, v)

SnapshotNext == SnapshotPlay \/ start_new_game \/ get_board \/ Write

SnapshotSpec == Init /\ [][SnapshotNext]_vars

(* ---------------------------------------------------------------------- *)
(* connect4_revise.Connect4: the constructor taking two players            *)
(* ---------------------------------------------------------------------- *)
\* PlayersDiffer with the comparison lost
PlayersDiffer_Always(a, b) == TRUE

\* player_a != player_b: Player defines no __eq__, so objects compare by identity
PlayersDiffer(a, b) == a # b

\* __init__ up to its call of start_new_game; attrs are the attributes set on self
revise_init(a, b) ==
  /\ ctor.pc \in {"none", "raised", "done"}
  /\ ctor' = IF PlayersDiffer(a, b)
             THEN [pc |-> "start_new_game", player_a |-> a, player_b |-> b,
                   attrs |-> {"_players"}, exc |-> "none"]
             ELSE [pc |-> "raised", player_a |-> a, player_b |-> b,
                   attrs |-> {}, exc |-> "SamePlayerException"]
  /\ UNCHANGED <<engine, ret, arg_column, new_row, reset_from, snapshot,
                 starter>>

\* start_new_game as __init__ calls it: its first statement reads self._board,
\* which nothing in this class assigns
revise_start_new_game ==
  /\ ctor.pc = "start_new_game"
  /\ IF "_board" \notin ctor.attrs
     THEN /\ ctor' = [ctor EXCEPT !.pc = "raised", !.exc = "AttributeError"]
          /\ UNCHANGED <<engine, starter>>
     ELSE /\ board' = EmptyBoard
          /\ curr_player_index' \in random_select_start_player
          /\ starter' = curr_player_index'
          /\ game_state' = "GAME_CONTINUE"
          /\ ctor' = [ctor EXCEPT !.pc = "done",
                        !.attrs = @ \cup {"_curr_player_index", "_game_state",
                                          "_player_lines"}]
  /\ UNCHANGED <<ret, arg_column, new_row, reset_from, snapshot>>

\* before the constructor runs the engine variables hold no object's state
ReviseInit ==
  /\ board = EmptyBoard
  /\ curr_player_index = 0
  /\ game_state = "GAME_CONTINUE"
  /\ ret = "None"
  /\ arg_column = NoColumn
  /\ new_row = NoRow
  /\ reset_from = "none"
  /\ snapshot = NoSnapshot
  /\ ctor = NoCtor
  /\ starter = curr_player_index

Construct == \E a \in PlayerObjects : \E b \in PlayerObjects : revise_init(a, b)

ReviseNext == Construct \/ revise_start_new_game

ReviseSpec == ReviseInit /\ [][ReviseNext]_vars

(* ---------------------------------------------------------------------- *)
(* _calc_game_state called on boards that no game need produce: a pivot    *)
(* cell of the mover on an empty board or on a board filled with the other *)
(* player's value, and up to MaxPainted more cells of the mover on the     *)
(* row, the column and the two diagonals through the pivot                 *)
(* ---------------------------------------------------------------------- *)
\* every cell holds v
Filled(v) == [r \in 0..(NumRows - 1) |-> [c \in 0..(NumColumns - 1) |-> v]]

\* (r2, c2) is another cell on the row, column or a diagonal of (r, c)
OnLine(r, c, r2, c2) ==
  /\ <<r2, c2>> # <<r, c>>
  /\ \/ r2 = r
     \/ c2 = c
     \/ r2 - r = c2 - c
     \/ r2 - r = c - c2

\* new_row and arg_column hold the arguments new_row and new_column
ProbeInit ==
  /\ new_row \in 0..(NumRows - 1)
  /\ arg_column \in 0..(NumColumns - 1)
  /\ curr_player_index \in Players
  /\ board \in {Put(Filled(v), new_row, arg_column, curr_player_index) :
                  v \in {EMPTY, 1 - curr_player_index}}
  /\ game_state = "GAME_CONTINUE"
  /\ ret = "None"
  /\ reset_from = "none"
  /\ snapshot = NoSnapshot
  /\ ctor = NoCtor
  /\ starter = curr_player_index

\* one more cell becomes the mover's and _calc_game_state is called on the pivot
Probe(r2, c2) ==
  /\ CountOf(board, curr_player_index) - 1 < MaxPainted
  /\ OnLine(new_row, arg_column, r2, c2)
  /\ board[r2][c2] # curr_player_index
  /\ board' = Put(board, r2, c2, curr_player_index)
  /\ ret' = calc_game_state(board', curr_player_index, new_row, arg_column)
  /\ UNCHANGED <<curr_player_index, game_state, arg_column, new_row,
                 reset_from, snapshot, ctor, starter>>

ProbeNext == \E r2 \in 0..(NumRows - 1) : \E c2 \in 0..(NumColumns - 1) :
               Probe(r2, c2)

ProbeSpec == ProbeInit /\ [][ProbeNext]_vars

(* ---------------------------------------------------------------------- *)
(* Vocabulary of the properties                                            *)
(* ---------------------------------------------------------------------- *)
InGrid(r, c) == r \in 0..(NumRows - 1) /\ c \in 0..(NumColumns - 1)

Dirs == {<<0, 1>>, <<1, 0>>, <<1, 1>>, <<1, -1>>}

\* the four cells from (r, c) along d are inside the grid and owned by p
LineFrom(b, p, r, c, d) ==
  \A j \in 0..3 : /\ InGrid(r + j * d[1], c + j * d[2])
                  /\ b[r + j * d[1]][c + j * d[2]] = p

\* some line of four cells containing (r, c) is entirely owned by p
LineThrough(b, p, r, c) ==
  \E d \in Dirs : \E k \in 0..3 : LineFrom(b, p, r - k * d[1], c - k * d[2], d)

\* some line of four cells anywhere on the board is entirely owned by p
HasFour(b, p) ==
  \E r \in 0..(NumRows - 1) : \E c \in 0..(NumColumns - 1) :
    \E d \in Dirs : LineFrom(b, p, r, c, d)

NoFour(b) == \A p \in Players : ~HasFour(b, p)

\* the mover's cells that follow (r, c) one after another in direction (dr, dc)
RECURSIVE Ray(_, _, _, _, _, _)
Ray(b, p, r, c, dr, dc) ==
  IF InGrid(r + dr, c + dc) /\ b[r + dr][c + dc] = p
  THEN 1 + Ray(b, p, r + dr, c + dc, dr, dc)
  ELSE 0

\* length of the maximal contiguous run of p's cells through (r, c) along d
RunThrough(b, p, r, c, d) ==
  1 + Ray(b, p, r, c, d[1], d[2]) + Ray(b, p, r, c, 0 - d[1], 0 - d[2])

\* _calc_game_state has been called on the pivot (new_row, arg_column)
Probed == ret \in GameStates /\ board[new_row][arg_column] = curr_player_index

\* this step is a call add_token(c) (returning or raising)
CallStep(c) == arg_column' = c /\ ret' # "None"

\* this step is a call add_token(c) that placed a token
PlaceStep(c) == arg_column' = c /\ ret' \in GameStates

Terminal == game_state \in {"PLAYER_WIN", "DRAW"}

InRange(c) == c \in 0..(NumColumns - 1)

(* ---------------------------------------------------------------------- *)
(* Claims                                                                  *)
(* ---------------------------------------------------------------------- *)

\* C1: whenever add_token places a token and some line of four cells through
\* the new cell is entirely owned by the player who moved, add_token returns
\* PLAYER_WIN and the game state is PLAYER_WIN.
C1_WinReported ==
  [][\A c \in Columns :
       (PlaceStep(c) /\ LineThrough(board', curr_player_index, new_row', c))
         => (ret' = "PLAYER_WIN" /\ game_state' = "PLAYER_WIN")]_vars

\* C2: in a game in progress, add_token(c) on a column holding k <= 5 tokens
\* puts the mover's token at row 5 - k of column c, into an empty cell, and
\* changes no other cell, so the token count grows by exactly one.
C2_DropRow ==
  [][\A c \in Columns :
       (CallStep(c) /\ game_state = "GAME_CONTINUE" /\ InRange(c)
          /\ Height(board, c) <= 5)
         => LET k == Height(board, c) IN
            /\ board[5 - k][c] = EMPTY
            /\ board' = [board EXCEPT ![5 - k][c] = curr_player_index]
            /\ new_row' = 5 - k
            /\ Count(board') = Count(board) + 1]_vars

C2_Witness ==
  /\ ret = "GAME_CONTINUE"
  /\ InRange(arg_column)
  /\ new_row = 2
  /\ Height(board, arg_column) = 4
  /\ board[2][arg_column] = Xor1(curr_player_index)

\* C3: in every reachable state no occupied cell has an empty cell below it
\* in the same column.
C3_Gravity ==
  \A c \in 0..(NumColumns - 1) : \A r \in 0..(NumRows - 2) :
    board[r][c] # EMPTY => board[r + 1][c] # EMPTY

C3_Witness ==
  \E c, d \in 0..(NumColumns - 1) :
    /\ Height(board, c) = 3
    /\ board[2][c] = EMPTY
    /\ board[3][c] # EMPTY
    /\ Height(board, d) = 2
    /\ board[4][d] # EMPTY

\* C4: whenever add_token returns PLAYER_WIN, the board after the placement
\* has a line of four cells through the new cell, all owned by the player
\* who was current before the call.
C4_WinIsLine ==
  [][\A c \in Columns :
       (CallStep(c) /\ ret' = "PLAYER_WIN")
         => /\ InRange(c)
            /\ board'[new_row'][c] = curr_player_index
            /\ LineThrough(board', curr_player_index, new_row', c)]_vars

C4_Witness ==
  /\ ret = "PLAYER_WIN"
  /\ game_state = "PLAYER_WIN"
  /\ LineThrough(board, Xor1(curr_player_index), new_row, arg_column)

Cells == NumRows * NumColumns

\* C5: while no line of four exists the game continues until the board is
\* full; the placement that fills the last cell without a line of four
\* returns DRAW; and DRAW is only ever reported on a full board.
C5_DrawAtLastCell ==
  /\ (NoFour(board) /\ Count(board) < Cells) => game_state = "GAME_CONTINUE"
  /\ (NoFour(board) /\ Count(board) = Cells) => game_state = "DRAW"
  /\ (NoFour(board) /\ Count(board) = Cells /\ ret \in GameStates) => ret = "DRAW"
  /\ (game_state = "DRAW" \/ ret = "DRAW") => Count(board) = Cells

C5_Witness ==
  /\ ret = "DRAW"
  /\ game_state = "DRAW"
  /\ Count(board) = Cells
  /\ NoFour(board)

\* C6: in every state whose game state is DRAW the board holds no line of
\* four cells owned by one player.
C6_DrawNoWin == game_state = "DRAW" => NoFour(board)

\* C7: every add_token that places a token and returns GAME_CONTINUE places
\* the current player's token and makes the other player current.
C7_Alternate ==
  [][\A c \in Columns :
       (PlaceStep(c) /\ ret' = "GAME_CONTINUE")
         => /\ curr_player_index' \in Players
            /\ curr_player_index' # curr_player_index
            /\ board'[new_row'][c] = curr_player_index]_vars

C7_Witness ==
  /\ ret = "GAME_CONTINUE"
  /\ Count(board) = 5
  /\ CountOf(board, curr_player_index) = 2
  /\ board[new_row][arg_column] = Xor1(curr_player_index)

\* C8: in a terminal state every add_token call raises GameOverError and
\* leaves board, game state and current player unchanged, so only
\* start_new_game leaves a terminal state.
C8_GameOver ==
  [][(Terminal /\ ret' # "None")
       => (ret' = "GameOverError" /\ UNCHANGED engine)]_vars

C8_Witness ==
  /\ game_state = "DRAW"
  /\ ret = "GameOverError"
  /\ arg_column = NumColumns

\* C9: in a game in progress add_token(c) on a column c in 0..6 holding six
\* tokens raises FullColumnError and leaves board, game state and current
\* player unchanged.
C9_FullColumn ==
  [][\A c \in Columns :
       (CallStep(c) /\ game_state = "GAME_CONTINUE" /\ InRange(c)
          /\ Height(board, c) = NumRows)
         => (ret' = "FullColumnError" /\ UNCHANGED engine)]_vars

C9_Witness ==
  /\ ret = "FullColumnError"
  /\ game_state = "GAME_CONTINUE"
  /\ InRange(arg_column)
  /\ Height(board, arg_column) = NumRows

\* C10: in a game in progress add_token(c) with c < 0 or c > 6 raises
\* ValueError and leaves board, game state and current player unchanged.
C10_ValueError ==
  [][\A c \in Columns :
       (CallStep(c) /\ game_state = "GAME_CONTINUE" /\ (c < 0 \/ c > 6))
         => (ret' = "ValueError" /\ UNCHANGED engine)]_vars

C10_Witness ==
  /\ ret = "ValueError"
  /\ game_state = "GAME_CONTINUE"
  /\ arg_column < 0

\* this step is a call is_valid_move(c)
QueryStep(c) == arg_column' = c /\ ret' \in {"True", "False"}

\* C11: is_valid_move(c) returns False exactly when the game is not in
\* progress, or c < 0, or c > 6, or the row-0 cell of column c is occupied,
\* and True otherwise; it changes nothing; and it returns True exactly when
\* add_token(c) in the same state would place a token.
C11_ValidMove ==
  [][\A c \in Columns :
       QueryStep(c)
         => /\ (ret' = "False") <=>
                 (\/ game_state # "GAME_CONTINUE"
                  \/ c < 0
                  \/ c > 6
                  \/ board[0][c] # EMPTY)
            /\ (ret' = "True") <=> Places(c)
            /\ UNCHANGED engine]_vars

C11_Witness ==
  /\ Terminal
  /\ ret = "False"
  /\ InRange(arg_column)
  /\ board[0][arg_column] = EMPTY

\* C12: right after construction and after every start_new_game, whatever
\* the state it was called in, all cells are empty, the game state is
\* GAME_CONTINUE and the current player is one of the two players.
C12_FreshGame ==
  ret = "None" => /\ board = EmptyBoard
                  /\ game_state = "GAME_CONTINUE"
                  /\ curr_player_index \in Players

C12_Witness ==
  /\ ret = "None"
  /\ reset_from = "DRAW"
  /\ Count(board) = 0
  /\ game_state = "GAME_CONTINUE"

\* this step is a call get_board()
GetBoardStep == ret' = "Board" /\ snapshot'.held /\ snapshot'.edits = 0

\* this step is the caller writing into the grid it holds
WriteStep ==
  snapshot.held /\ snapshot'.held /\ snapshot'.edits = snapshot.edits + 1

\* C13: get_board returns a new grid whose cell (r, c) is EMPTY, A_TOKEN or
\* B_TOKEN exactly when the engine's cell is empty, player 0's or player
\* 1's; get_board changes nothing in the engine; and a write of the caller
\* into the returned grid changes nothing in the engine.
C13_BoardCopy ==
  [][/\ GetBoardStep
          => /\ \A r \in 0..(NumRows - 1) : \A c \in 0..(NumColumns - 1) :
                  /\ (snapshot'.grid[r][c] = "EMPTY") <=> (board[r][c] = -1)
                  /\ (snapshot'.grid[r][c] = "A_TOKEN") <=> (board[r][c] = 0)
                  /\ (snapshot'.grid[r][c] = "B_TOKEN") <=> (board[r][c] = 1)
             /\ ~snapshot'.alias
             /\ UNCHANGED engine
     /\ WriteStep => UNCHANGED engine]_vars

C13_Witness ==
  /\ snapshot.held
  /\ snapshot.edits = 1
  /\ snapshot.grid[5][0] = "B_TOKEN"
  /\ board[5][0] = 0

\* C14: while the game is in progress some column has an empty row-0 cell,
\* so neither random move source raises ValueError on get_board(), and
\* every column either can return is one add_token accepts.
C14_MoveSourceSafe ==
  game_state = "GAME_CONTINUE"
    => /\ \E c \in 0..(NumColumns - 1) : board[0][c] = EMPTY
       /\ \A src \in {choose_rand_column(board_copy(board)),
                       choose_column(board_copy(board))} :
            /\ ~src.raises
            /\ src.columns # {}
            /\ \A c \in src.columns : Places(c)

C14_Witness ==
  /\ game_state = "GAME_CONTINUE"
  /\ Count(board) = Cells - 1
  /\ choose_rand_column(board_copy(board)).columns = {6}

\* the columns holding a token
Used == {c \in 0..(NumColumns - 1) : board[NumRows - 1][c] # EMPTY}

\* every token of column c belongs to the owner of its bottom cell
OneOwner(c) ==
  \A r \in 0..(NumRows - 1) : board[r][c] \in {EMPTY, board[NumRows - 1][c]}

\* so far each player has dropped into one column of their own
TwoColumnGame ==
  /\ Cardinality(Used) \in {1, 2}
  /\ \A c \in Used : OneOwner(c)
  /\ \A c, d \in Used : c # d => board[NumRows - 1][c] # board[NumRows - 1][d]

\* C15: when the starter drops into one column on each of its turns and the
\* opponent into another, the first six placements return GAME_CONTINUE and
\* the seventh, the starter's fourth token, returns PLAYER_WIN.
C15_FourInColumn ==
  TwoColumnGame
    => IF \E c \in Used : Height(board, c) >= 4
       THEN /\ game_state = "PLAYER_WIN"
            /\ ret \in {"PLAYER_WIN", "GameOverError"}
            /\ Count(board) = 7
            /\ ret = "PLAYER_WIN" => (new_row = 2 /\ Height(board, arg_column) = 4)
       ELSE /\ game_state = "GAME_CONTINUE"
            /\ ret \notin {"PLAYER_WIN", "DRAW", "GameOverError"}

C15_Witness ==
  /\ TwoColumnGame
  /\ Count(board) = 7
  /\ Height(board, 3) = 4
  /\ Height(board, 0) = 3
  /\ ret = "PLAYER_WIN"
  /\ arg_column = 3
  /\ new_row = 2

\* the constructor call has returned or raised
Constructed == ctor.pc \in {"raised", "done"}

\* C16: constructing connect4_revise.Connect4 with the same player as
\* player_a and player_b raises SamePlayerException and sets up nothing on
\* the object.
C16_SamePlayer ==
  (ctor.pc # "none" /\ ctor.player_a = ctor.player_b)
    => /\ ctor.pc = "raised"
       /\ ctor.exc = "SamePlayerException"
       /\ ctor.attrs = {}

C16_Witness ==
  /\ Constructed
  /\ ctor.player_a = 2
  /\ ctor.player_b = 2
  /\ ctor.exc = "SamePlayerException"

\* C17: constructing connect4_revise.Connect4 with two distinct players
\* completes without error and leaves an empty board, GAME_CONTINUE and a
\* current player that is one of the two.
C17_DistinctPlayers ==
  (Constructed /\ ctor.player_a # ctor.player_b)
    => /\ ctor.pc = "done"
       /\ ctor.exc = "none"
       /\ {"_board", "_game_state", "_curr_player_index"} \subseteq ctor.attrs
       /\ board = EmptyBoard
       /\ game_state = "GAME_CONTINUE"
       /\ curr_player_index \in Players

\* C18: in every state whose game state is GAME_CONTINUE the board holds no
\* line of four cells owned by one player, in any orientation.
C18_NoHiddenFour == game_state = "GAME_CONTINUE" => NoFour(board)

C18_Witness ==
  /\ game_state = "GAME_CONTINUE"
  /\ ret = "GAME_CONTINUE"
  /\ Count(board) = Cells - 2
  /\ NoFour(board)

\* C19: when add_token keeps being called with legal columns and
\* start_new_game is not called, the game state eventually is PLAYER_WIN or
\* DRAW, with at most 42 tokens placed: the session loop ends.
C19_GameEnds == <>(Terminal /\ Count(board) <= Cells)

C19_Witness ==
  /\ game_state = "PLAYER_WIN"
  /\ ret = "PLAYER_WIN"
  /\ Count(board) > Replayed

\* C20: every add_token that places a token makes the other player current,
\* also when it returns PLAYER_WIN or DRAW; so in a PLAYER_WIN state the
\* owner of the new cell and of a line of four is the player other than
\* the current one.
C20_FlipAlways ==
  [][/\ \A c \in Columns :
          PlaceStep(c)
            => /\ curr_player_index' = 1 - curr_player_index
               /\ ret' = "PLAYER_WIN"
                    => board'[new_row'][c] = 1 - curr_player_index'
     /\ game_state' = "PLAYER_WIN"
          => HasFour(board', 1 - curr_player_index')]_vars

C20_Witness ==
  /\ game_state = "PLAYER_WIN"
  /\ ret = "PLAYER_WIN"
  /\ board[new_row][arg_column] = 1 - curr_player_index
  /\ HasFour(board, 1 - curr_player_index)
  /\ ~HasFour(board, curr_player_index)

\* C21: no board holds a line of four of player A and a line of four of
\* player B at the same time: a game has at most one winner.
C21_OneWinner == ~(HasFour(board, 0) /\ HasFour(board, 1))

C21_Witness ==
  /\ game_state = "PLAYER_WIN"
  /\ Count(board) < Cells - 1
  /\ HasFour(board, 0)
  /\ ~HasFour(board, 1)
  /\ \E c \in 0..(NumColumns - 1) : board[0][c] = EMPTY

\* C22: on every board, whatever its content, with the pivot owned by the
\* mover and the draw branch aside, _calc_game_state returns PLAYER_WIN
\* exactly when along (0,1), (1,0), (1,1) or (1,-1) the maximal contiguous
\* run of the mover's cells through the pivot has length at least four.
C22_CasesAreRuns ==
  (Probed /\ ret # "DRAW")
    => (ret = "PLAYER_WIN"
          <=> \E d \in Dirs :
                RunThrough(board, curr_player_index, new_row, arg_column, d) >= 4)

C22_Witness ==
  /\ Probed
  /\ ret = "PLAYER_WIN"
  /\ ~WinFirst(board, curr_player_index, new_row, arg_column)
  /\ RunThrough(board, curr_player_index, new_row, arg_column, <<0, 1>>) = 4
  /\ board[0][0] = 1 - curr_player_index

\* C23: for every pivot of the grid every cell _calc_game_state reads has
\* its row index in 0..5 and its column index in 0..6: no negative index
\* and no index past the end.
C23_ReadsInGrid ==
  Probed => \A rc \in Reads(board, curr_player_index, new_row, arg_column) :
              InGrid(rc[1], rc[2])

C23_Witness ==
  /\ Probed
  /\ new_row = NumRows - 1
  /\ arg_column = 0
  /\ <<NumRows - 4, 3>> \in Reads(board, curr_player_index, new_row, arg_column)

\* C24: in every state the player who started the current game has as many
\* tokens on the board as the other player or exactly one more, and the
\* current player is the starter exactly when the two counts are equal.
C24_Balanced ==
  LET mine   == CountOf(board, starter)
      theirs == CountOf(board, 1 - starter)
  IN /\ mine - theirs \in {0, 1}
     /\ curr_player_index = starter <=> mine = theirs

C24_Witness ==
  /\ reset_from = "none"
  /\ starter = 1
  /\ CountOf(board, 1) = 3
  /\ CountOf(board, 0) = 2
  /\ curr_player_index = 0
  /\ ret = "GAME_CONTINUE"

====
